---------------------------- MODULE Spec2Model ----------------------------
(***************************************************************************)
(* Model of rt.py, the control script of the DNS resolver testbed.         *)
(*                                                                         *)
(* The script is sequential: one thread walks from the dispatcher at the   *)
(* bottom of the file through startup_and_config_general, sanity_check_vms,*)
(* cmd_to_vm and is_vm_running.  The model keeps the position of that      *)
(* thread in pc, the return positions of the pending calls in stack, and   *)
(* one action per step between two external interactions (a local          *)
(* subprocess, an SSH open, an SSH command).  What the outside world       *)
(* answers (exit statuses, captured text, whether the connection opens) is *)
(* chosen from small sets.                                                 *)
(*                                                                         *)
(* Text that the script parses (VM names, captured stdout and stderr) is a *)
(* sequence of tokens; a token stands for one character or for one         *)
(* indivisible run of characters.  Text the script never looks into        *)
(* (commands, log messages) is kept as the literal of the source.          *)
(***************************************************************************)
EXTENDS Integers, Sequences, FiniteSets, TLC

(***************************************************************************)
(* Bounds of the model.                                                    *)
(***************************************************************************)
\* Longest list of running VMs the hypervisor CLI reports.
MaxRunning == 3
\* Longest captured stdout / stderr text of a remote command, in tokens.
MaxText == 3

(***************************************************************************)
(* Tokens and text.                                                        *)
(***************************************************************************)
SP == " "
NL == "\n"
QUOTE == "\""
UUID == "{uuid}"
Whitespace == {SP, NL}

\* The phrase sanity_check_vms looks for in the answer to a listing.
NO_SUCH_FILE == <<"No such file or directory">>
\* The marker cmd_to_vm puts in front of the stderr text of a failed command.
ERROR_MARKER == <<"Error: ">>

\* The elements of a sequence, as a set.
Range(s) == {s[i] : i \in 1..Len(s)}

\* str.lstrip(): drop leading whitespace.
RECURSIVE LStrip(_)
LStrip(s) ==
    IF s # <<>> /\ Head(s) \in Whitespace THEN LStrip(Tail(s)) ELSE s

\* str.rstrip(): drop trailing whitespace.
RECURSIVE RStrip(_)
RStrip(s) ==
    IF s # <<>> /\ s[Len(s)] \in Whitespace
    THEN RStrip(SubSeq(s, 1, Len(s) - 1))
    ELSE s

\* str.strip(): drop whitespace at both ends.
Strip(s) == LStrip(RStrip(s))

\* str.split(sep): the pieces between the occurrences of sep; never empty.
RECURSIVE SplitFrom(_, _, _)
SplitFrom(s, sep, cur) ==
    IF s = <<>> THEN <<cur>>
    ELSE IF Head(s) = sep THEN <<cur>> \o SplitFrom(Tail(s), sep, <<>>)
    ELSE SplitFrom(Tail(s), sep, Append(cur, Head(s)))

Split(s, sep) == SplitFrom(s, sep, <<>>)

\* str.find(ch, start): the 0-based index of the first ch at index >= start,
\* or -1.
Find(s, ch, start) ==
    LET hits == {i \in 0..(Len(s) - 1) : i >= start /\ s[i + 1] = ch}
    IN  IF hits = {} THEN -1
        ELSE CHOOSE i \in hits : \A j \in hits : i <= j

\* s[lo:hi] of Python for lo >= 0: a negative hi counts from the end, and
\* the bounds are clipped to the text.
PySlice(s, lo, hi) ==
    LET n == Len(s)
        h0 == IF hi < 0 THEN hi + n ELSE hi
        h  == IF h0 < 0 THEN 0 ELSE IF h0 > n THEN n ELSE h0
        l  == IF lo > n THEN n ELSE lo
    IN  IF l >= h THEN <<>> ELSE SubSeq(s, l + 1, h)

\* needle in s
Contains(needle, s) ==
    \E i \in 0..(Len(s) - Len(needle)) :
        SubSeq(s, i + 1, i + Len(needle)) = needle

\* " ".join / "\n".join
RECURSIVE Join(_, _)
Join(parts, sep) ==
    IF parts = <<>> THEN <<>>
    ELSE IF Len(parts) = 1 THEN parts[1]
    ELSE parts[1] \o <<sep>> \o Join(Tail(parts), sep)

\* All sequences over S of length at most n.
RECURSIVE SeqsUpTo(_, _)
SeqsUpTo(S, n) ==
    IF n = 0 THEN {<<>>}
    ELSE LET shorter == SeqsUpTo(S, n - 1)
         IN  shorter \cup {Append(s, x) : s \in shorter, x \in S}

(***************************************************************************)
(* Program-wide constants.                                                 *)
(***************************************************************************)
GATEWAY == <<"gateway-vm">>
SERVERS == <<"servers-vm">>
RESOLVERS == <<"resolvers-vm">>

\* The keys of VM_INFO in the order a for loop walks them.
VM_ORDER == <<GATEWAY, SERVERS, RESOLVERS>>

VM_INFO ==
    [v \in Range(VM_ORDER) |->
        [control_addr |->
            IF v = GATEWAY THEN "192.168.56.2"
            ELSE IF v = SERVERS THEN "192.168.56.3"
            ELSE "192.168.56.4"]]

CLI_COMMANDS == {"help", "check_vms"}

HELP_TEXT ==
    <<"Available commands for rt.py are:", NL,
      "help                 Show this text", NL,
      "check_vms            Run simple checks on the VMs">>

\* The two directories sanity_check_vms looks after, in order.
DIRS == <<"~/Target", "~/Source">>

LsCmd(d) == IF d = 1 THEN "ls ~/Target" ELSE "ls ~/Source"
MkdirCmd(d) == IF d = 1 THEN "mkdir ~/Target" ELSE "mkdir ~/Source"
CreatedMsg(d) == IF d = 1 THEN "Created ~/Target on " ELSE "Created ~/Source on "
MkdirCmds == {MkdirCmd(1), MkdirCmd(2)}


(***************************************************************************)
(* What the outside world can answer.                                      *)
(***************************************************************************)
\* Popen.wait(): 0, a positive exit status, or the negative number of the
\* signal that killed the subprocess.
Statuses == {0, 1, -9}

\* Names of VMs the hypervisor may have running: the three of the testbed,
\* and a clone whose name starts like one of them.
HvNames == Range(VM_ORDER) \cup {<<"gateway-vm", "2">>}
\* A listing names each running VM once.
RunningLists ==
    {l \in SeqsUpTo(HvNames, MaxRunning) :
        \A i, j \in 1..Len(l) : l[i] = l[j] => i = j}

\* "VBoxManage list runningvms" prints one line per running VM:
\* "<name>" {<uuid>}
RECURSIVE RunningVmsOutput(_)
RunningVmsOutput(names) ==
    IF names = <<>> THEN <<>>
    ELSE <<QUOTE>> \o Head(names) \o <<QUOTE, SP, UUID, NL>>
         \o RunningVmsOutput(Tail(names))

\* Result objects of a remote command: exit status as .failed, and the
\* captured stdout and stderr.
Result(f, out, err) == [failed |-> f, stdout |-> out, stderr |-> err]
NoResult == Result(FALSE, <<>>, <<>>)

\* Answers to "hostname": the name of some VM of the testbed, with or
\* without the final newline, or with a leading blank; nothing; a failure.
HostnameTexts ==
    UNION {{n \o <<NL>>, n, <<SP>> \o n \o <<NL>>} : n \in Range(VM_ORDER)}
        \cup {<<>>}
HostnameResults ==
    {Result(FALSE, t, <<>>) : t \in HostnameTexts}
        \cup {Result(TRUE, <<>>, <<"hostname: failed", NL>>)}

\* Answers to the caller's command: success with some stdout text, or
\* failure with some stderr text.
TextTokens == {NO_SUCH_FILE[1], "f", NL}
Texts == SeqsUpTo(TextTokens, MaxText)
MainResults ==
    {Result(FALSE, t, <<>>) : t \in Texts}
        \cup {Result(TRUE, <<>>, t) : t \in Texts}

\* Command lines the program can be started with.
Argvs ==
    {<<a0>> \o rest :
        a0 \in {"./rt.py", "rt.py"},
        rest \in {<<>>, <<"help">>, <<"check_vms">>, <<"badcmd">>,
                  <<"help", "extra">>}}

(***************************************************************************)
(* State.                                                                  *)
(***************************************************************************)
VARIABLES
    argv,                 \* sys.argv
    pc,                   \* position of the thread
    stack,                \* return positions of the pending calls
    exit_code,            \* exit status of the process, -1 while it runs
    exit_via,             \* "", or how it ended: "die", "exit", "exception"
    console,              \* lines printed so far (help text and log lines)
    actions,              \* external actions so far: subprocesses, SSH
    rt_config,            \* the global rt_config
    cmd,                  \* the dispatcher's cmd
    vm_idx,               \* position of this_vm / this_vm_name in VM_ORDER
    dir_idx,              \* which of DIRS sanity_check_vms is at
    this_ret,             \* sanity_check_vms: what cmd_to_vm returned
                          \* (this_ret, and inner_ret for a creation)
    cmd_to_run,           \* cmd_to_vm: parameter
    vm_name,              \* cmd_to_vm / is_vm_running: parameter
    this_control_address, \* cmd_to_vm: local
    ret_hostname,         \* cmd_to_vm: local
    ret_main_cmd,         \* cmd_to_vm: local
    ret_val,              \* exit status of the last local subprocess
    p_stdout,             \* is_vm_running: what p.stdout.read() gives
    hv_running            \* the VMs the hypervisor had running when asked

control == <<pc, stack, exit_code, exit_via, console>>
main_vars == <<argv, rt_config, cmd>>
scv_vars == <<vm_idx, dir_idx, this_ret>>
ctv_vars == <<cmd_to_run, vm_name, this_control_address, ret_hostname, ret_main_cmd>>
ivr_vars == <<ret_val, p_stdout, hv_running>>
vars == <<control, actions, main_vars, scv_vars, ctv_vars, ivr_vars>>

Exited == pc = "exited"

(***************************************************************************)
(* log, die, show_help, and the two ways a step leaves its function.       *)
(***************************************************************************)
\* log(in_str): nothing for an empty message, else one time-stamped line.
Log(lines, in_str) ==
    IF in_str = <<>> THEN lines
    ELSE Append(lines, <<"%H-%M-%S", ": ">> \o in_str)

\* show_help()
ShowHelp(lines) == Append(lines, HELP_TEXT)

\* exit() with no argument ends the process with status 0.
EXIT_STATUS == 0
\* An exception nobody catches ends the process with status 1.
UNCAUGHT_STATUS == 1

\* die(in_str), after `lines` have been printed by the same step.
DieAfter(lines, in_str) ==
    /\ console' = Log(lines, in_str \o <<" Exiting.">>)
    /\ pc' = "exited"
    /\ exit_code' = EXIT_STATUS
    /\ exit_via' = "die"
    /\ stack' = stack

Die(in_str) == DieAfter(console, in_str)

\* An exception that no handler of the script catches.
Raise ==
    /\ pc' = "exited"
    /\ exit_code' = UNCAUGHT_STATUS
    /\ exit_via' = "exception"
    /\ UNCHANGED <<stack, console>>

\* Carry on at `label` in the same function, having printed `lines`.
GotoAfter(lines, label) ==
    /\ pc' = label
    /\ console' = lines
    /\ UNCHANGED <<stack, exit_code, exit_via>>

Goto(label) == GotoAfter(console, label)

\* Call the function that starts at `entry`; it returns to `back`.
CallAfter(lines, entry, back) ==
    /\ pc' = entry
    /\ stack' = <<back>> \o stack
    /\ console' = lines
    /\ UNCHANGED <<exit_code, exit_via>>

Call(entry, back) == CallAfter(console, entry, back)

\* Return to the caller.
Return ==
    /\ pc' = Head(stack)
    /\ stack' = Tail(stack)
    /\ UNCHANGED <<exit_code, exit_via, console>>

\* A local subprocess or an SSH action, as recorded in actions.
Act(a, v, c) == [act |-> a, vm |-> v, cmd |-> c]

(***************************************************************************)
(* Initial states.                                                         *)
(***************************************************************************)
InitLocals ==
    /\ exit_code = -1
    /\ exit_via = ""
    /\ console = <<>>
    /\ actions = <<>>
    /\ cmd = ""
    /\ vm_idx = 0
    /\ dir_idx = 0
    /\ this_ret = <<>>
    /\ this_control_address = ""
    /\ ret_hostname = NoResult
    /\ ret_main_cmd = NoResult
    /\ ret_val = 0
    /\ p_stdout = <<>>
    /\ hv_running = <<>>

\* The program is started from the shell.
Init ==
    /\ InitLocals
    /\ argv \in Argvs
    /\ pc = "main"
    /\ stack = <<>>
    /\ rt_config = [vm_info |-> <<>>]
    /\ cmd_to_run = ""
    /\ vm_name = <<>>

(***************************************************************************)
(* The dispatcher.                                                         *)
(***************************************************************************)
\* A dispatcher that forgets to reject unknown commands.
CmdValid_Any(c) == TRUE

\* The membership test of the dispatcher.
CmdValid(c) == c \in CLI_COMMANDS

\* A dispatcher whose two branches are swapped.
Dispatch_Swapped(c) ==
    IF c = "help" THEN "sanity_check_vms"
    ELSE IF c = "check_vms" THEN "show_help"
    ELSE "none"

\* Which branch of the if / elif chain the command takes.
Dispatch(c) ==
    IF c = "help" THEN "show_help"
    ELSE IF c = "check_vms" THEN "sanity_check_vms"
    ELSE "none"

\* Start of the run, and the test for a missing command.
MainStart ==
    /\ pc = "main"
    /\ LET started == Log(console, <<"## Starting run on date ", "%Y-%m-%d">>)
       IN  IF Len(argv) < 2
           THEN DieAfter(ShowHelp(started),
                         <<"There were no arguments on the command line.">>)
           ELSE GotoAfter(started, "startup_argv0")
    /\ UNCHANGED <<actions, main_vars, scv_vars, ctv_vars, ivr_vars>>

\* After startup: take the command, reject an unknown one, dispatch.
MainCommand ==
    /\ pc = "main_command"
    /\ cmd' = argv[2]
    /\ LET logged == Log(console, <<"Command was ", argv[2], " ">>
                                     \o Join([i \in 1..(Len(argv) - 2) |-> <<argv[i + 2]>>], SP))
       IN  IF ~CmdValid(cmd')
           THEN /\ DieAfter(ShowHelp(logged), <<cmd', " is not valid command.">>)
                /\ UNCHANGED scv_vars
           ELSE IF Dispatch(cmd') = "show_help"
           THEN /\ GotoAfter(ShowHelp(logged), "main_finish")
                /\ UNCHANGED scv_vars
           ELSE IF Dispatch(cmd') = "sanity_check_vms"
           THEN /\ CallAfter(logged, "scv_loop", "main_checked")
                /\ vm_idx' = 1
                /\ UNCHANGED <<dir_idx, this_ret>>
           ELSE /\ GotoAfter(logged, "main_finish")
                /\ UNCHANGED scv_vars
    /\ UNCHANGED <<actions, argv, rt_config, ctv_vars, ivr_vars>>

\* What sanity_check_vms returns.
SANITY_RETURN == TRUE

\* sanity_check_vms has returned.
MainChecked ==
    /\ pc = "main_checked"
    /\ GotoAfter(IF SANITY_RETURN
                 THEN Log(console, <<"VMs are running as expected">>)
                 ELSE console,
                 "main_finish")
    /\ UNCHANGED <<actions, main_vars, scv_vars, ctv_vars, ivr_vars>>

\* The fall-through at the end of the script.
MainFinish ==
    /\ pc = "main_finish"
    /\ console' = Log(console, <<"## Finished run">>)
    /\ pc' = "exited"
    /\ exit_code' = EXIT_STATUS
    /\ exit_via' = "exit"
    /\ UNCHANGED <<stack, actions, main_vars, scv_vars, ctv_vars, ivr_vars>>

(***************************************************************************)
(* startup_and_config_general                                              *)
(***************************************************************************)
\* The test the script applies to the status of a local subprocess.
LocalFailed(status) == status > 0

StartupArgv0 ==
    /\ pc = "startup_argv0"
    /\ IF argv[1] # "./rt.py"
       THEN Die(<<"This program must be run as ./rt.py so that all the additional files are found.">>)
       ELSE Goto("startup_version")
    /\ UNCHANGED <<actions, main_vars, scv_vars, ctv_vars, ivr_vars>>

\* Popen("VBoxManage --version ...") and p.wait()
StartupVersion ==
    /\ pc = "startup_version"
    /\ \E status \in Statuses : ret_val' = status
    /\ actions' = Append(actions, Act("Popen", <<>>, "VBoxManage --version"))
    /\ Goto("startup_version_check")
    /\ UNCHANGED <<main_vars, scv_vars, ctv_vars, p_stdout, hv_running>>

StartupVersionCheck ==
    /\ pc = "startup_version_check"
    /\ IF LocalFailed(ret_val)
       THEN /\ Die(<<"Could not run VBoxManage during sanity check.">>)
            /\ UNCHANGED vm_idx
       ELSE /\ Goto("startup_showvminfo")
            /\ vm_idx' = 1
    /\ UNCHANGED <<actions, main_vars, dir_idx, this_ret, ctv_vars, ivr_vars>>

\* Popen("VBoxManage showvminfo <name> ...") and p.wait(), for the VM the
\* loop is at.
StartupShowVmInfo ==
    /\ pc = "startup_showvminfo"
    /\ \E status \in Statuses : ret_val' = status
    /\ actions' = Append(actions, Act("Popen", VM_ORDER[vm_idx], "VBoxManage showvminfo"))
    /\ Goto("startup_showvminfo_check")
    /\ UNCHANGED <<main_vars, scv_vars, ctv_vars, p_stdout, hv_running>>

\* The test inside the loop; after the last VM, build and return the
\* configuration.
StartupShowVmInfoCheck ==
    /\ pc = "startup_showvminfo_check"
    /\ IF LocalFailed(ret_val)
       THEN /\ Die(<<"Could not find '">> \o VM_ORDER[vm_idx]
                    \o <<"' in the VirtualBox inventory.">>)
            /\ UNCHANGED <<vm_idx, rt_config>>
       ELSE IF vm_idx < Len(VM_ORDER)
       THEN /\ Goto("startup_showvminfo")
            /\ vm_idx' = vm_idx + 1
            /\ UNCHANGED rt_config
       ELSE /\ Goto("main_command")
            /\ vm_idx' = 0
            /\ rt_config' = [vm_info |-> [k \in Range(VM_ORDER) |-> VM_INFO[k]]]
    /\ UNCHANGED <<actions, argv, cmd, dir_idx, this_ret, ctv_vars, ivr_vars>>

(***************************************************************************)
(* sanity_check_vms                                                        *)
(***************************************************************************)
this_vm == VM_ORDER[vm_idx]

\* The test on what the listing returned.
PathAbsent(ret) == Contains(NO_SUCH_FILE, ret)

\* Head of the loop over the VMs: log and call is_vm_running, or return
\* after the last VM.
ScvLoop ==
    /\ pc = "scv_loop"
    /\ IF vm_idx <= Len(VM_ORDER)
       THEN /\ CallAfter(Log(console, <<"Starting sanity check on ">> \o this_vm),
                         "ivr_popen", "scv_ls")
            /\ vm_name' = this_vm
            /\ dir_idx' = 1
            /\ UNCHANGED vm_idx
       ELSE /\ Return
            /\ vm_idx' = 0
            /\ dir_idx' = 0
            /\ UNCHANGED vm_name
    /\ UNCHANGED <<actions, main_vars, this_ret, cmd_to_run, this_control_address,
                   ret_hostname, ret_main_cmd, ivr_vars>>

\* this_ret = cmd_to_vm("ls ~/<dir>", this_vm)
ScvLs ==
    /\ pc = "scv_ls"
    /\ Call("ctv_lookup", "scv_check")
    /\ cmd_to_run' = LsCmd(dir_idx)
    /\ vm_name' = this_vm
    /\ UNCHANGED <<actions, main_vars, scv_vars, this_control_address,
                   ret_hostname, ret_main_cmd, ivr_vars>>

\* Move on to the next directory, or to the next VM after the last one.
ScvAdvance(lines) ==
    /\ IF dir_idx < Len(DIRS)
       THEN /\ GotoAfter(lines, "scv_ls")
            /\ dir_idx' = dir_idx + 1
            /\ UNCHANGED vm_idx
       ELSE /\ GotoAfter(lines, "scv_loop")
            /\ dir_idx' = 0
            /\ vm_idx' = vm_idx + 1
    /\ this_ret' = <<>>
    /\ ret_main_cmd' = NoResult
    /\ UNCHANGED <<cmd_to_run, vm_name>>

\* if "No such file or directory" in this_ret: inner_ret = cmd_to_vm("mkdir ...")
\* The answer to the listing is not read again after this test, and is
\* dropped here.
ScvCheck ==
    /\ pc = "scv_check"
    /\ IF PathAbsent(this_ret)
       THEN /\ Call("ctv_lookup", "scv_created")
            /\ cmd_to_run' = MkdirCmd(dir_idx)
            /\ vm_name' = this_vm
            /\ this_ret' = <<>>
            /\ ret_main_cmd' = NoResult
            /\ UNCHANGED <<vm_idx, dir_idx>>
       ELSE ScvAdvance(console)
    /\ UNCHANGED <<actions, main_vars, this_control_address, ret_hostname, ivr_vars>>

\* The creation command has returned: log("Created ~/<dir> on <vm>")
ScvCreated ==
    /\ pc = "scv_created"
    /\ ScvAdvance(Log(console, <<CreatedMsg(dir_idx)>> \o this_vm))
    /\ UNCHANGED <<actions, main_vars, this_control_address, ret_hostname, ivr_vars>>

(***************************************************************************)
(* cmd_to_vm                                                               *)
(***************************************************************************)
\* cmd_to_vm without its test on the name.
VmNameValid_NoCheck(v) == TRUE

\* The test on the name.
VmNameValid(v) == v \in DOMAIN VM_INFO

\* (rt_config["vm_info"][vm_name]).get("control_addr"); "" when there is none.
ControlAddr(v) ==
    IF v \in DOMAIN rt_config.vm_info THEN rt_config.vm_info[v].control_addr ELSE ""

\* The identity test with strip() in place of rstrip().
HostnameMatches_Strip(ret_text, v) == Strip(ret_text) = v

\* The test on what "hostname" printed.
HostnameMatches(ret_text, v) == RStrip(ret_text) = v

\* fabconn.run(..., warn=w) raises UnexpectedExit for a command that exits
\* non-zero unless warn is set.
RunRaises(result, warn) == result.failed /\ ~warn

\* The caller's command run without warn=True.
MAIN_WARN_Omitted == FALSE

\* The warn argument of the two run calls.
HOSTNAME_WARN == FALSE
MAIN_WARN == TRUE

\* What cmd_to_vm returns for the result of the caller's command.
ReturnText(r) ==
    IF r.failed THEN ERROR_MARKER \o Strip(r.stderr) ELSE Strip(r.stdout)

\* Reject an unknown name, else call is_vm_running.
CtvLookup ==
    /\ pc = "ctv_lookup"
    /\ IF ~VmNameValid(vm_name)
       THEN Die(<<"Attempt to run on ">> \o vm_name \o <<", which is not a valid VM">>)
       ELSE Call("ivr_popen", "ctv_addr")
    /\ UNCHANGED <<actions, main_vars, scv_vars, ctv_vars, ivr_vars>>

\* Take the control address; build the (not yet opened) connection.
CtvAddr ==
    /\ pc = "ctv_addr"
    /\ this_control_address' = ControlAddr(vm_name)
    /\ IF this_control_address' = ""
       THEN Die(<<"There was no address for ">> \o vm_name)
       ELSE Goto("ctv_open")
    /\ UNCHANGED <<actions, main_vars, scv_vars, cmd_to_run, vm_name,
                   ret_hostname, ret_main_cmd, ivr_vars>>

\* fabconn.open(), and the handler of its failure.
CtvOpen ==
    /\ pc = "ctv_open"
    /\ actions' = Append(actions, Act("ssh open", vm_name, ""))
    /\ \E opened \in BOOLEAN :
        IF ~opened
        THEN Die(<<"Could not open an SSH connection to ">> \o vm_name \o <<".">>)
        ELSE Goto("ctv_hostname")
    /\ UNCHANGED <<main_vars, scv_vars, ctv_vars, ivr_vars>>

\* ret_hostname = fabconn.run("hostname", hide=True)
CtvHostname ==
    /\ pc = "ctv_hostname"
    /\ actions' = Append(actions, Act("ssh run", vm_name, "hostname"))
    /\ \E r \in HostnameResults :
        /\ ret_hostname' = r
        /\ IF RunRaises(r, HOSTNAME_WARN) THEN Raise ELSE Goto("ctv_check_hostname")
    /\ UNCHANGED <<main_vars, scv_vars, cmd_to_run, vm_name, this_control_address,
                   ret_main_cmd, ivr_vars>>

\* The two tests on ret_hostname.
CtvCheckHostname ==
    /\ pc = "ctv_check_hostname"
    /\ IF ret_hostname.failed
       THEN Die(<<"Could not run hostname on ">> \o vm_name)
       ELSE IF ~HostnameMatches(ret_hostname.stdout, vm_name)
       THEN Die(<<"The host at ", this_control_address, " is not ">> \o vm_name
                \o <<": '">> \o ret_hostname.stdout \o <<"'">>)
       ELSE Goto("ctv_run")
    /\ UNCHANGED <<actions, main_vars, scv_vars, ctv_vars, ivr_vars>>

\* ret_main_cmd = fabconn.run(cmd_to_run, hide=True, warn=True)
CtvRun ==
    /\ pc = "ctv_run"
    /\ actions' = Append(actions, Act("ssh run", vm_name, cmd_to_run))
    /\ \E r \in MainResults :
        /\ ret_main_cmd' = r
        /\ IF RunRaises(r, MAIN_WARN) THEN Raise ELSE Goto("ctv_return")
    /\ UNCHANGED <<main_vars, scv_vars, cmd_to_run, vm_name, this_control_address,
                   ret_hostname, ivr_vars>>

\* The two return statements.
CtvReturn ==
    /\ pc = "ctv_return"
    /\ this_ret' = ReturnText(ret_main_cmd)
    /\ Return
    /\ this_control_address' = ""
    /\ ret_hostname' = NoResult
    /\ UNCHANGED <<actions, main_vars, vm_idx, dir_idx, cmd_to_run, vm_name,
                   ret_main_cmd, ivr_vars>>

(***************************************************************************)
(* is_vm_running                                                           *)
(***************************************************************************)
\* The slice taken from the start of the line, opening quote included.
LineName_FromZero(this_line) == PySlice(this_line, 0, Find(this_line, QUOTE, 2))

\* The name the script takes from one line of the listing.
LineName(this_line) == PySlice(this_line, 1, Find(this_line, QUOTE, 2))

\* running_vms, from what the subprocess printed.
ParseRunningVms(out) ==
    LET running_vms_lines == Split(Strip(out), NL)
    IN  [i \in 1..Len(running_vms_lines) |-> LineName(running_vms_lines[i])]

\* Popen("VBoxManage list runningvms", stdout=PIPE) and p.wait()
IvrPopen ==
    /\ pc = "ivr_popen"
    /\ actions' = Append(actions, Act("Popen", <<>>, "VBoxManage list runningvms"))
    /\ \E status \in Statuses, running \in RunningLists :
        /\ ret_val' = status
        /\ hv_running' = running
        /\ p_stdout' = RunningVmsOutput(running)
    /\ Goto("ivr_check")
    /\ UNCHANGED <<main_vars, scv_vars, ctv_vars>>

\* if ret_val > 0: die
IvrCheck ==
    /\ pc = "ivr_check"
    /\ IF LocalFailed(ret_val)
       THEN Die(<<"VBoxManage runningvms failed to run.">>)
       ELSE Goto("ivr_parse")
    /\ UNCHANGED <<actions, main_vars, scv_vars, ctv_vars, ivr_vars>>

\* Parse the listing; die unless vm_name is in it.
IvrParse ==
    /\ pc = "ivr_parse"
    /\ LET running_vms == ParseRunningVms(p_stdout)
       IN  IF vm_name \notin Range(running_vms)
           THEN /\ Die(vm_name \o <<" is not in the list of running VMs: '">>
                       \o Join(running_vms, SP) \o <<"'.">>)
                /\ UNCHANGED ivr_vars
           ELSE /\ Return
                /\ ret_val' = 0
                /\ p_stdout' = <<>>
                /\ hv_running' = <<>>
    /\ UNCHANGED <<actions, main_vars, scv_vars, ctv_vars>>

(***************************************************************************)
(* The program.                                                            *)
(***************************************************************************)
Next ==
    \/ MainStart
    \/ StartupArgv0
    \/ StartupVersion
    \/ StartupVersionCheck
    \/ StartupShowVmInfo
    \/ StartupShowVmInfoCheck
    \/ MainCommand
    \/ MainChecked
    \/ MainFinish
    \/ ScvLoop
    \/ ScvLs
    \/ ScvCheck
    \/ ScvCreated
    \/ CtvLookup
    \/ CtvAddr
    \/ CtvOpen
    \/ CtvHostname
    \/ CtvCheckHostname
    \/ CtvRun
    \/ CtvReturn
    \/ IvrPopen
    \/ IvrCheck
    \/ IvrParse

Spec == Init /\ [][Next]_vars

(***************************************************************************)
(* cmd_to_vm on its own: any caller, any command, any name, and a          *)
(* configuration in which a VM may lack its control address.               *)
(***************************************************************************)
CallerCommands == {LsCmd(1), MkdirCmd(1)}
CallerNames == Range(VM_ORDER) \cup {<<"bogus-vm">>}
CallerConfigs ==
    {[vm_info |-> VM_INFO],
     [vm_info |-> [VM_INFO EXCEPT ![SERVERS] = [control_addr |-> ""]]]}

InitCmd ==
    /\ InitLocals
    /\ argv = <<"./rt.py", "check_vms">>
    /\ pc = "ctv_lookup"
    /\ stack = <<"returned">>
    /\ rt_config \in CallerConfigs
    /\ cmd_to_run \in CallerCommands
    /\ vm_name \in CallerNames

NextCmd ==
    \/ CtvLookup
    \/ CtvAddr
    \/ CtvOpen
    \/ CtvHostname
    \/ CtvCheckHostname
    \/ CtvRun
    \/ CtvReturn
    \/ IvrPopen
    \/ IvrCheck
    \/ IvrParse

SpecCmd == InitCmd /\ [][NextCmd]_vars

(***************************************************************************)
(* Properties.                                                             *)
(***************************************************************************)
\* The last external action, if any.
HasActions == actions # <<>>
LastAction == actions[Len(actions)]
ListRunning == Act("Popen", <<>>, "VBoxManage list runningvms")

\* Positions in actions of remote directory creations, and log lines that
\* report one.
MkdirsIssued == {i \in 1..Len(actions) : actions[i].cmd \in MkdirCmds}
CreatedLogged ==
    {i \in 1..Len(console) :
        /\ Len(console[i]) >= 3
        /\ console[i][3] \in {CreatedMsg(1), CreatedMsg(2)}}

\* No sanity check has started and nothing was done to or asked about a VM
\* beyond the startup validator's own subprocesses.
NoVmCheck ==
    /\ \A i \in 1..Len(actions) :
        /\ actions[i].act = "Popen"
        /\ actions[i].cmd \in {"VBoxManage --version", "VBoxManage showvminfo"}
    /\ \A i \in 1..Len(console) :
        ~(Len(console[i]) >= 3 /\ console[i][3] = "Starting sanity check on ")

\* startup_and_config_general has returned the configuration.
StartupPassed == DOMAIN rt_config.vm_info # {}

\* The last two printed lines are the help text and the die line for msg.
HelpThenDied(msg) ==
    /\ exit_via = "die"
    /\ Len(console) >= 2
    /\ console[Len(console) - 1] = HELP_TEXT
    /\ console[Len(console)] = <<"%H-%M-%S", ": ">> \o msg \o <<" Exiting.">>

\* C1: a call of cmd_to_vm with a name that is not a key of VM_INFO ends the
\* process in its first step and issues no external action at all: no
\* listing of running VMs, no SSH open, no hostname, no caller command.
C1_UnknownVmFailsFast ==
    vm_name \notin DOMAIN VM_INFO =>
        /\ actions = <<>>
        /\ pc \in {"ctv_lookup", "exited"}
        /\ Exited => (exit_via = "die" /\ Len(console) = 1)

C1_Witness ==
    /\ Exited
    /\ exit_via = "die"
    /\ vm_name = <<"bogus-vm">>
    /\ console = <<<<"%H-%M-%S", ": ", "Attempt to run on ", "bogus-vm",
                     ", which is not a valid VM", " Exiting.">>>>

\* C2: the caller's command goes out over SSH only right after, in this
\* order, the listing of running VMs, the SSH open and the hostname command
\* of the same call, for a configured name, and only if hostname succeeded
\* and printed vm_name up to trailing whitespace; and a hostname command
\* that fails, or prints anything else, ends the process with no further
\* external action.
C2_IssuesCallerCommand ==
    /\ Len(actions') = Len(actions) + 1
    /\ actions'[Len(actions')].act = "ssh run"
    /\ actions'[Len(actions')].cmd # "hostname"

C2_ChecksPassedInOrder ==
    LET n == Len(actions)
        v == actions'[n + 1].vm
    IN  /\ n >= 3
        /\ v \in DOMAIN VM_INFO
        /\ actions[n - 2] = ListRunning
        /\ actions[n - 1] = Act("ssh open", v, "")
        /\ actions[n] = Act("ssh run", v, "hostname")
        /\ ~ret_hostname.failed
        /\ RStrip(ret_hostname.stdout) = v

C2_IdentityRejected ==
    \/ /\ pc = "ctv_hostname"
       /\ ret_hostname'.failed
    \/ /\ pc = "ctv_check_hostname"
       /\ ret_hostname.failed \/ RStrip(ret_hostname.stdout) # vm_name

C2_IdentityGate ==
    [][/\ C2_IssuesCallerCommand => C2_ChecksPassedInOrder
       /\ C2_IdentityRejected =>
            /\ pc' = "exited"
            /\ pc = "ctv_check_hostname" => actions' = actions]_vars

C2_Witness ==
    /\ Exited
    /\ exit_via = "die"
    /\ HasActions
    /\ LastAction = Act("ssh run", vm_name, "hostname")
    /\ ~ret_hostname.failed
    /\ ret_hostname.stdout = <<SP>> \o vm_name \o <<NL>>

\* C3: when the caller's command has run, cmd_to_vm returns without ending
\* the process: "Error: " and the trimmed stderr for a failed command, the
\* trimmed stdout otherwise; and every other failure the program meets ends
\* the run.
C3_ReturnsText ==
    pc = "ctv_return" =>
        /\ pc' # "exited"
        /\ this_ret' = IF ret_main_cmd.failed
                       THEN <<"Error: ">> \o Strip(ret_main_cmd.stderr)
                       ELSE Strip(ret_main_cmd.stdout)

C3_OtherFailure ==
    \/ /\ pc \in {"startup_version_check", "startup_showvminfo_check", "ivr_check"}
       /\ ret_val # 0
    \/ /\ pc = "ivr_parse"
       /\ vm_name \notin Range(hv_running)
    \/ C2_IdentityRejected

\* The first half of C3 on its own.
C3_ReturnPath == [][C3_ReturnsText]_vars

C3_Claim ==
    [][/\ C3_ReturnsText
       /\ C3_OtherFailure => pc' = "exited"]_vars

\* C4: once the listing of running VMs has been read, is_vm_running ends the
\* process exactly when vm_name is not one of the VMs the hypervisor listed,
\* and returns to its caller otherwise.
C4_DiesIffNotRunning ==
    [][pc = "ivr_parse" =>
        /\ (pc' = "exited") <=> (vm_name \notin Range(hv_running))
        /\ pc' # "exited" => (pc' = Head(stack) /\ stack' = Tail(stack))]_vars

C4_Witness ==
    /\ Exited
    /\ exit_via = "die"
    /\ vm_name = RESOLVERS
    /\ ret_val = 0
    /\ HasActions
    /\ LastAction = ListRunning
    /\ hv_running = <<GATEWAY, SERVERS>>

\* C5: on the answer to a listing, sanity_check_vms issues the creation
\* command when the answer says "No such file or directory", and issues none
\* when the listing succeeded (the directory exists); the creation message is
\* logged when the creation command has returned.
C5_CallsMkdir ==
    /\ pc' = "ctv_lookup"
    /\ cmd_to_run' = MkdirCmd(dir_idx)
    /\ vm_name' = VM_ORDER[vm_idx]

C5_Claim ==
    [][/\ pc = "scv_check" =>
            /\ Contains(NO_SUCH_FILE, this_ret) => C5_CallsMkdir
            /\ ~ret_main_cmd.failed => ~C5_CallsMkdir
       /\ pc = "scv_created" =>
            console' = Append(console, <<"%H-%M-%S", ": ", CreatedMsg(dir_idx)>>
                                         \o VM_ORDER[vm_idx])]_vars

\* C6 as stated: with no argument, or with one argument that is no command,
\* the run ends having printed the help text and then the matching message,
\* whatever the local environment, and no VM check or remote command is run.
\* (Read in the claim's favour: only for a program started as ./rt.py.)
C6_NoCommand == Len(argv) = 1
C6_BadCommand == Len(argv) = 2 /\ argv[2] \notin {"help", "check_vms"}

C6_Original ==
    argv[1] = "./rt.py" =>
        /\ (C6_NoCommand \/ C6_BadCommand) => NoVmCheck
        /\ (Exited /\ C6_NoCommand) =>
                HelpThenDied(<<"There were no arguments on the command line.">>)
        /\ (Exited /\ C6_BadCommand) =>
                HelpThenDied(<<argv[2], " is not valid command.">>)

\* C6 amended: the same, but for an argument that is no command the help
\* text and the "not valid command" message come only when the startup
\* validator has passed; when it has not, the run ends on the validator's
\* own message and the help text is never printed.
C6_Amended ==
    /\ (C6_NoCommand \/ C6_BadCommand) => NoVmCheck
    /\ (Exited /\ C6_NoCommand) =>
            /\ HelpThenDied(<<"There were no arguments on the command line.">>)
            /\ actions = <<>>
    /\ (Exited /\ C6_BadCommand /\ StartupPassed) =>
            HelpThenDied(<<argv[2], " is not valid command.">>)
    /\ (Exited /\ C6_BadCommand /\ ~StartupPassed) =>
            /\ exit_via = "die"
            /\ HELP_TEXT \notin Range(console)

C6_Witness ==
    /\ Exited
    /\ argv = <<"./rt.py", "badcmd">>
    /\ HelpThenDied(<<"badcmd", " is not valid command.">>)

\* C7 as stated: started with the single argument help, the run prints the
\* help text and ends through the "Finished run" fall-through, with no VM
\* check.  (Read in the claim's favour: only for a program started as
\* ./rt.py.)
C7_HelpOnly == Len(argv) = 2 /\ argv[2] = "help"

C7_Original ==
    (C7_HelpOnly /\ argv[1] = "./rt.py") =>
        /\ NoVmCheck
        /\ Exited =>
            /\ exit_via = "exit"
            /\ HELP_TEXT \in Range(console)

\* C7 amended: started with the single argument help, the run does no VM
\* check; and provided the startup validator passes, it prints the help text
\* and ends through the "Finished run" fall-through.
C7_Amended ==
    C7_HelpOnly =>
        /\ NoVmCheck
        /\ (Exited /\ StartupPassed) =>
            /\ exit_via = "exit"
            /\ exit_code = 0
            /\ console = <<<<"%H-%M-%S", ": ", "## Starting run on date ", "%Y-%m-%d">>,
                           <<"%H-%M-%S", ": ", "Command was ", "help", " ">>,
                           HELP_TEXT,
                           <<"%H-%M-%S", ": ", "## Finished run">>>>

C7_Witness ==
    /\ Exited
    /\ argv = <<"./rt.py", "help">>
    /\ exit_via = "exit"
    /\ HELP_TEXT \in Range(console)

\* C8: every run that ends, ends with exit status 0, through die or through
\* the fall-through at the end of the script.
C8_Claim ==
    Exited => (exit_code = 0 /\ exit_via \in {"die", "exit"})

\* C9: after each of the three local subprocesses, any non-zero status, a
\* negative one included, ends the run through die.
C9_Claim ==
    [][(/\ pc \in {"startup_version_check", "startup_showvminfo_check", "ivr_check"}
        /\ ret_val # 0)
       => (pc' = "exited" /\ exit_via' = "die")]_vars

\* C10 as stated: when a run ends on a fatal error, no remote directory
\* creation has been issued before.
C10_Fatal == Exited /\ exit_via # "exit"

C10_Original == C10_Fatal => MkdirsIssued = {}

\* C10 amended: when a run ends on a fatal error, every remote directory
\* creation issued so far had returned and been logged as created (the fatal
\* check fired in a later call, never in the call that issued the creation),
\* and a fatal error of the dispatcher or the startup validator comes before
\* any creation.
C10_Amended ==
    C10_Fatal =>
        /\ Cardinality(MkdirsIssued) = Cardinality(CreatedLogged)
        /\ HasActions => LastAction.cmd \notin MkdirCmds
        /\ stack = <<>> => MkdirsIssued = {}

C10_Witness ==
    /\ C10_Fatal
    /\ MkdirsIssued # {}
    /\ vm_name = GATEWAY
    /\ cmd_to_run = LsCmd(2)
=============================================================================
